---- MODULE Spec2Model ----
(***************************************************************************)
(* Model of web-extension-sys (src/src/lib.rs): the wasm-bindgen binding   *)
(* of chrome.storage.local, chrome.storage.sync and chrome.storage.        *)
(* onChanged.  The Rust functions are operators computed as the code       *)
(* computes them; the host runtime behind the extern "C" blocks is the     *)
(* environment: a key-value store per namespace, a queue of asynchronous   *)
(* requests per namespace and a queue of change events.                    *)
(***************************************************************************)
EXTENDS Integers, Sequences, FiniteSets, TLC

\* Number of calls the embedding program makes into the binding layer.
MaxCalls == 2
\* Number of times the host runs one closure in the closure harness.
MaxRuns == 2

(***************************************************************************)
(* JsValue: the host's dynamic values, as tagged records.                  *)
(***************************************************************************)
Undefined == [t |-> "undefined", v |-> 0]
Null == [t |-> "null", v |-> 0]
Num(n) == [t |-> "number", v |-> n]
Str(s) == [t |-> "string", v |-> s]
\* An ordinary object: the sequence of its own enumerable string-keyed data
\* properties [k, v], in property order, with distinct keys.  Every object of
\* this model has Object.prototype as its prototype.
Obj(props) == [t |-> "object", v |-> props]
\* A JS array of values.
Arr(items) == [t |-> "array", v |-> items]
Prop(key, value) == [k |-> key, v |-> value]
\* Object.prototype.toString, the value every ordinary object inherits at "toString".
ObjectProtoToString == [t |-> "function", v |-> "toString"]
\* Object.prototype itself, the value the inherited accessor "__proto__" reads.
ObjectPrototype == [t |-> "prototype", v |-> 0]
TypeError == [t |-> "error", v |-> "TypeError"]

IsObject(x) == x.t = "object"

Ok(x) == [tag |-> "Ok", val |-> x]
Err(e) == [tag |-> "Err", val |-> e]
Some(x) == [tag |-> "Some", val |-> x]
None == [tag |-> "None", val |-> Undefined]
Unit == [t |-> "unit", v |-> 0]

OwnKeys(o) == {o.v[i].k : i \in 1..Len(o.v)}
Own(o, key) == o.v[CHOOSE i \in 1..Len(o.v) : o.v[i].k = key].v

\* Object::new()
Object_new == Obj(<<>>)

\* Reflect::get(target, key): Reflect.get throws a TypeError for a target that is
\* not an object (js_sys returns it as Err); otherwise [[Get]] reads the own
\* property, else walks to Object.prototype (represented by its members
\* "toString" and "__proto__"), else yields undefined.
Reflect_get(target, key) ==
    IF ~IsObject(target) THEN Err(TypeError)
    ELSE IF key \in OwnKeys(target) THEN Ok(Own(target, key))
    ELSE IF key = "toString" THEN Ok(ObjectProtoToString)
    ELSE IF key = "__proto__" THEN Ok(ObjectPrototype)
    ELSE Ok(Undefined)

\* Reflect::set(target, key, value): the object after the call, or the TypeError
\* of a non-object target.  [[Set]] on an ordinary object overwrites an own data
\* property in place or appends a new one, except that "__proto__" (when not an
\* own property) finds the accessor of Object.prototype, whose setter creates
\* no own property.
Reflect_set(target, key, value) ==
    IF ~IsObject(target) THEN Err(TypeError)
    ELSE IF key \in OwnKeys(target)
         THEN Ok(Obj([i \in 1..Len(target.v) |->
                        IF target.v[i].k = key THEN Prop(key, value) ELSE target.v[i]]))
    ELSE IF key = "__proto__" THEN Ok(target)
    ELSE Ok(Obj(Append(target.v, Prop(key, value))))

\* Object::keys / Object::values: the own enumerable properties, in property
\* order (both enumerate in the same order); a primitive has none.
Object_keys(o) == Arr(IF IsObject(o) THEN [i \in 1..Len(o.v) |-> Str(o.v[i].k)] ELSE << >>)
Object_values(o) == Arr(IF IsObject(o) THEN [i \in 1..Len(o.v) |-> o.v[i].v] ELSE << >>)

\* error::Error and its From impls
Error_SerdeWasmBindgen(e) == [kind |-> "SerdeWasmBindgen", val |-> e]
Error_JsValue(e) == [kind |-> "JsValue", val |-> e]

(***************************************************************************)
(* mod utils                                                               *)
(***************************************************************************)
\* Mutant: the last item is lost.
map_to_js_value_short(vec) == [i \in 1..(Len(vec) - 1) |-> Str(vec[i])]

\* map_to_js_value: vec.into_iter().map(|x| x.into()).collect()
map_to_js_value(vec) == [i \in 1..Len(vec) |-> Str(vec[i])]

\* create_object_with_property: Object::new(), Reflect::set(..)?, Ok(data)
create_object_with_property(key, value) ==
    LET data == Object_new
        r == Reflect_set(data, key, value)
    IN IF r.tag = "Err" THEN Err(Error_JsValue(r.val)) ELSE Ok(r.val)

(***************************************************************************)
(* Closures and host requests                                              *)
(***************************************************************************)
\* A wasm-bindgen Closure handed to the host: fn names the Rust closure body it
\* wraps, key the key it captured, id the call that created it.  The layer only
\* borrows closures (&Closure) and never drops one: the caller keeps each alive
\* for as long as the host may run it.
Closure(fn, key, id) == [fn |-> fn, key |-> key, id |-> id]
NoClosure == Closure("none", "", 0)

\* One invocation of a host primitive: chrome.storage.<ns>.<prim>(arg[, cb]).
HostCall(prim, ns, arg, cb) == [prim |-> prim, ns |-> ns, arg |-> arg, cb |-> cb]

\* What running a Rust function of the layer does: the host primitives it
\* invokes, in order, and the value it returns.
Outcome(host, ret) == [host |-> host, ret |-> ret]

(***************************************************************************)
(* serde_wasm_bindgen::to_value of a struct: a plain object holding the    *)
(* fields in declaration order, or the serializer's error.                 *)
(***************************************************************************)
I32(n) == [ty |-> "i32", v |-> n]
Unserializable == [ty |-> "unserializable", v |-> 0]
SerdeError == [t |-> "error", v |-> "serde"]

field_to_js(x) == Num(x.v)

to_value(data) ==
    IF \E i \in 1..Len(data) : data[i].v.ty = "unserializable"
    THEN Err(SerdeError)
    ELSE Ok(Obj([i \in 1..Len(data) |-> Prop(data[i].k, field_to_js(data[i].v))]))

(***************************************************************************)
(* mod storage::local                                                      *)
(***************************************************************************)
local_get_one(key, callback) == HostCall("get", "local", Str(key), callback)
local__get_multiple(keys, callback) == HostCall("get", "local", Arr(keys), callback)
local__set(data) == HostCall("set", "local", data, NoClosure)
local__set_and_then(data, callback) == HostCall("set", "local", data, callback)

local_get_multiple(keys, callback) ==
    LET jskeys == map_to_js_value(keys)
    IN Outcome(<<local__get_multiple(jskeys, callback)>>, Unit)

\* Mutant: the callback variant is never used.
local__set_optional_callback_dropped(data, callback) == <<local__set(data)>>

local__set_optional_callback(data, callback) ==
    IF callback.tag = "None" THEN <<local__set(data)>>
    ELSE <<local__set_and_then(data, callback.val)>>

local_set_one(key, value, callback) ==
    LET data == create_object_with_property(key, value)
    IN IF data.tag = "Err" THEN Outcome(<<>>, data)
       ELSE Outcome(local__set_optional_callback(data.val, callback), Ok(Unit))

\* Mutant: the fields are converted and written one by one, so the fields before
\* the failing one reach the host.
local_set_multiple_partial(data, callback) ==
    LET js == to_value(data)
        bad == CHOOSE j \in 1..Len(data) :
                  /\ data[j].v.ty = "unserializable"
                  /\ \A h \in 1..(j - 1) : data[h].v.ty # "unserializable"
    IN IF js.tag = "Err"
       THEN Outcome(IF bad = 1 THEN << >>
                    ELSE local__set_optional_callback(
                             to_value(SubSeq(data, 1, bad - 1)).val, callback),
                    Err(Error_SerdeWasmBindgen(js.val)))
       ELSE Outcome(local__set_optional_callback(js.val, callback), Ok(Unit))

local_set_multiple(data, callback) ==
    LET js == to_value(data)
    IN IF js.tag = "Err" THEN Outcome(<<>>, Err(Error_SerdeWasmBindgen(js.val)))
       ELSE Outcome(local__set_optional_callback(js.val, callback), Ok(Unit))

(***************************************************************************)
(* mod storage::sync                                                       *)
(***************************************************************************)
sync_get_one(key, callback) == HostCall("get", "sync", Str(key), callback)
sync__get_multiple(keys, callback) == HostCall("get", "sync", Arr(keys), callback)
\* Mutant: the binding names the other namespace.
sync__set_local(data) == HostCall("set", "local", data, NoClosure)
sync__set(data) == HostCall("set", "sync", data, NoClosure)
sync__set_and_then(data, callback) == HostCall("set", "sync", data, callback)

sync_get_multiple(keys, callback) ==
    LET jskeys == map_to_js_value(keys)
    IN Outcome(<<sync__get_multiple(jskeys, callback)>>, Unit)

sync__set_optional_callback(data, callback) ==
    IF callback.tag = "None" THEN <<sync__set(data)>>
    ELSE <<sync__set_and_then(data, callback.val)>>

sync_set_one(key, value, callback) ==
    LET data == create_object_with_property(key, value)
    IN IF data.tag = "Err" THEN Outcome(<<>>, data)
       ELSE Outcome(sync__set_optional_callback(data.val, callback), Ok(Unit))

sync_set_multiple(data, callback) ==
    LET js == to_value(data)
    IN IF js.tag = "Err" THEN Outcome(<<>>, Err(Error_SerdeWasmBindgen(js.val)))
       ELSE Outcome(sync__set_optional_callback(js.val, callback), Ok(Unit))

(***************************************************************************)
(* mod storage::on_changed                                                 *)
(***************************************************************************)
\* JsValue::as_string
as_string(x) == IF x.t = "string" THEN Some(x.v) ELSE None

\* The getters of StorageChange: the property reads this.oldValue and
\* this.newValue of a change record (an object; neither name is inherited from
\* Object.prototype).
old_value(this) == IF IsObject(this) THEN Reflect_get(this, "oldValue").val ELSE Undefined
new_value(this) == IF IsObject(this) THEN Reflect_get(this, "newValue").val ELSE Undefined

\* Mutant: the values are paired with the keys in reverse order.
zip_collect_reversed(keys, values) ==
    [k \in {keys[i] : i \in 1..Len(keys)} |->
        values[Len(values) + 1 - (CHOOSE i \in 1..Len(keys) : keys[i] = k)]]

\* keys.zip(values).collect::<HashMap<_, _>>(): a later pair replaces an earlier
\* one with the same key; zip stops at the shorter sequence.
zip_collect(keys, values) ==
    LET n == IF Len(keys) <= Len(values) THEN Len(keys) ELSE Len(values)
        last(k) == CHOOSE i \in 1..n : keys[i] = k /\ \A j \in (i+1)..n : keys[j] # k
    IN [k \in {keys[i] : i \in 1..n} |-> values[last(k)]]

\* Mutant: the namespace passed on is a fixed string.
listener_closure_fixed(changes, namespace) ==
    [tag |-> "Called",
     changes |-> zip_collect([i \in 1..Len(changes.v) |-> changes.v[i].k],
                             Object_values(changes).v),
     namespace |-> "local"]

\* The closure create_listener returns, run on (changes, namespace): the
\* arguments it passes to the typed callback; or the TypeError Object.keys
\* throws for undefined and null; or the panic of unwrap().
listener_closure(changes, namespace) ==
    LET ks == Object_keys(changes).v
        vs == Object_values(changes).v
    IN IF changes.t \in {"undefined", "null"}
       THEN [tag |-> "Thrown", changes |-> << >>, namespace |-> namespace]
       ELSE IF \E i \in 1..Len(ks) : as_string(ks[i]).tag = "None"
       THEN [tag |-> "Panic", changes |-> << >>, namespace |-> namespace]
       ELSE [tag |-> "Called",
             changes |-> zip_collect([i \in 1..Len(ks) |-> as_string(ks[i]).val], vs),
             namespace |-> namespace]

(***************************************************************************)
(* storage::create_get_one_closure                                         *)
(***************************************************************************)
\* The closure create_get_one_closure(callback, key) returns, run on data: the
\* sequence of values it passes to callback.
get_one_closure(key, data) ==
    LET value == Reflect_get(data, key)
        opt == IF value.tag = "Ok"
               THEN IF value.val.t = "undefined" THEN None ELSE Some(value.val)
               ELSE None
    IN <<opt>>

(***************************************************************************)
(* The host runtime: chrome.storage.local / chrome.storage.sync            *)
(***************************************************************************)
Namespaces == {"local", "sync"}

\* chrome.storage.<ns>.set(items): every own property of items is written over
\* the stored value of its key; a property holding undefined is not stored.
HostSet(s, items) ==
    IF ~IsObject(items) THEN s
    ELSE LET ks == {k \in OwnKeys(items) : Own(items, k).t # "undefined"}
         IN [k \in DOMAIN s \cup ks |-> IF k \in ks THEN Own(items, k) ELSE s[k]]

\* The keys a get request names: one string or a list of strings.
RequestedKeys(arg) ==
    IF arg.t = "string" THEN <<arg.v>>
    ELSE [i \in 1..Len(arg.v) |-> arg.v[i].v]

RECURSIVE ResultProps(_, _, _)
ResultProps(s, keys, acc) ==
    IF keys = << >> THEN acc
    ELSE LET k == Head(keys)
             present == k \in DOMAIN s /\ \A i \in 1..Len(acc) : acc[i].k # k
         IN ResultProps(s, Tail(keys), IF present THEN Append(acc, Prop(k, s[k])) ELSE acc)

\* chrome.storage.<ns>.get(keys, cb): the object passed to cb holds the stored
\* value of every requested key that is present.
HostGet(s, arg) == Obj(ResultProps(s, RequestedKeys(arg), << >>))

\* The StorageChange of one key: oldValue is left out for a key not stored before.
HostChange(s, k, new) ==
    IF k \in DOMAIN s
    THEN Obj(<<Prop("oldValue", s[k]), Prop("newValue", new)>>)
    ELSE Obj(<<Prop("newValue", new)>>)

RECURSIVE ChangeProps(_, _, _)
ChangeProps(s, props, acc) ==
    IF props = << >> THEN acc
    ELSE LET p == Head(props)
             changed == p.v.t # "undefined" /\ (p.k \notin DOMAIN s \/ s[p.k] # p.v)
         IN ChangeProps(s, Tail(props),
                        IF changed THEN Append(acc, Prop(p.k, HostChange(s, p.k, p.v))) ELSE acc)

\* The changes object of the onChanged event a set raises: one StorageChange
\* per key whose stored value the set changed.
HostChanges(s, items) ==
    IF ~IsObject(items) THEN Obj(<< >>) ELSE Obj(ChangeProps(s, items.v, << >>))

(***************************************************************************)
(* State                                                                   *)
(***************************************************************************)
VARIABLES
    store,      \* host: [namespace -> [stored keys -> JsValue]]
    pending,    \* host: [namespace -> requests accepted and not yet completed, in call order]
    listeners,  \* host: the closures registered with chrome.storage.onChanged
    events,     \* host: change events raised and not yet delivered to their listener
    calls,      \* the calls made into the layer so far, with what came of each
    lastWrite,  \* [namespace -> the call whose write the host completed last, 0 if none]
    mutations,  \* the namespace of every mutation so far, in order
    input,      \* closure harness: the arguments a closure under test is run on
    output      \* closure harness: what the closure passed to its callback, per run

vars == <<store, pending, listeners, events, calls, lastWrite, mutations, input, output>>
harness == <<input, output>>

StoredValues == {Num(1), Num(2)}
SetOneKeys == {"a", "__proto__"}
GetOneKeys == {"a", "__proto__"}
GetManyKeys == {<<"a">>, <<"a", "b">>}
\* The values of a struct { a: i32, b: i32 }, and those whose serializer fails on
\* a field.
Records == {<<Prop("a", x), Prop("b", y)>> :
                x \in {I32(1), Unserializable}, y \in {I32(2), Unserializable}}
Callbacks == {"None", "Some"}

NoValue == << >>
HostException == [t |-> "error", v |-> "host"]
Thrown(e) == [tag |-> "Thrown", val |-> e]
EmptyStore == [k \in {} |-> Undefined]

HostInit ==
    /\ store = [ns \in Namespaces |-> EmptyStore]
    /\ pending = [ns \in Namespaces |-> << >>]
    /\ listeners = << >>
    /\ events = << >>
    /\ calls = << >>
    /\ lastWrite = [ns \in Namespaces |-> 0]
    /\ mutations = << >>

Init == HostInit /\ input = NoValue /\ output = << >>

\* The on_done argument of call id: None, or Some(the caller's closure f).
OnDone(cb, id) == IF cb = "None" THEN None ELSE Some(Closure("on_done", "", id))

\* The record of a call: op(arg) through the binding of namespace ns, with
\* (cb = "Some") or without a callback; rejected: the host primitive it invoked
\* threw; ret: what the function returned; done: the host completed its request;
\* n: how often the caller's callback ran; got: what the callback was passed;
\* saw, before, after: the last completed write and the namespace's contents
\* when the host completed the request.
CallRecord(op, ns, arg, cb, rejected, ret) ==
    [op |-> op, ns |-> ns, arg |-> arg, cb |-> cb, rejected |-> rejected, ret |-> ret,
     done |-> FALSE, n |-> 0, got |-> NoValue, saw |-> 0,
     before |-> EmptyStore, after |-> EmptyStore]

\* A call into the layer ran with outcome out; accepted tells whether the host
\* primitive it invoked returned normally.  An import declared without `catch`
\* that throws unwinds through the Rust frame: the function returns no value.
Call(op, ns, arg, cb, out, accepted) ==
    LET id == Len(calls) + 1
        rejected == out.host # << >> /\ ~accepted
    IN /\ Len(calls) < MaxCalls
       /\ calls' = Append(calls, CallRecord(op, ns, arg, cb, rejected,
                                  IF rejected THEN Thrown(HostException) ELSE out.ret))
       /\ pending' = IF out.host = << >> \/ rejected THEN pending
                     ELSE [pending EXCEPT ![out.host[1].ns] =
                              Append(@, [req |-> out.host[1], call |-> id])]
       /\ UNCHANGED <<store, listeners, events, lastWrite, mutations, harness>>

SetOne ==
    \E ns \in Namespaces, key \in SetOneKeys, value \in StoredValues,
       cb \in Callbacks, accepted \in BOOLEAN :
        LET callback == OnDone(cb, Len(calls) + 1)
        IN Call("set_one", ns, Prop(key, value), cb,
                IF ns = "local" THEN local_set_one(key, value, callback)
                                ELSE sync_set_one(key, value, callback),
                accepted)

SetMultiple ==
    \E ns \in Namespaces, data \in Records, cb \in Callbacks, accepted \in BOOLEAN :
        LET callback == OnDone(cb, Len(calls) + 1)
        IN Call("set_multiple", ns, data, cb,
                IF ns = "local" THEN local_set_multiple(data, callback)
                                ELSE sync_set_multiple(data, callback),
                accepted)

\* get_one is the host primitive itself; its callback here is the closure
\* create_get_one_closure builds for the same key.
GetOne ==
    \E ns \in Namespaces, key \in GetOneKeys :
        LET callback == Closure("get_one_closure", key, Len(calls) + 1)
        IN Call("get_one", ns, key, "Some",
                Outcome(<<IF ns = "local" THEN local_get_one(key, callback)
                                          ELSE sync_get_one(key, callback)>>, Unit),
                TRUE)

GetMultiple ==
    \E ns \in Namespaces, keys \in GetManyKeys :
        LET callback == Closure("raw", "", Len(calls) + 1)
        IN Call("get_multiple", ns, keys, "Some",
                IF ns = "local" THEN local_get_multiple(keys, callback)
                                ELSE sync_get_multiple(keys, callback),
                TRUE)

\* chrome.storage.onChanged.addListener(callback): the host keeps the closure in
\* its listener list; the API offers nothing that takes it out again.
add_listener(registered, callback) == Append(registered, callback)

\* on_changed::add_listener(&create_listener(on_change)).  saw: the number of
\* mutations before the registration.
AddListener ==
    LET id == Len(calls) + 1
    IN /\ Len(calls) < MaxCalls
       /\ listeners' = add_listener(listeners, Closure("listener", "", id))
       /\ calls' = Append(calls, [CallRecord("add_listener", "", NoValue, "Some", FALSE, Unit)
                                    EXCEPT !.saw = Len(mutations)])
       /\ UNCHANGED <<store, pending, events, lastWrite, mutations, harness>>

\* Running closure c: the call record of its creator counts the invocation of
\* the caller's callback and keeps the value passed to it.
Invoked(cs, c, value) ==
    IF c.fn = "none" THEN cs
    ELSE [cs EXCEPT ![c.id].n = @ + 1, ![c.id].got = value]

\* What the closure of a get request passes on, given the host's result object.
Delivered(c, result) ==
    IF c.fn = "get_one_closure" THEN get_one_closure(c.key, result) ELSE <<result>>

\* The host completes the oldest pending request of a namespace: a set is
\* applied, raises one change event per listener when it changed a value, and
\* its completion callback (if one was passed) runs; a get reads the namespace
\* and its callback runs on the result.
HostComplete(ns) ==
    /\ pending[ns] # << >>
    /\ LET e == Head(pending[ns])
           r == e.req
           new == IF r.prim = "set" THEN HostSet(store[ns], r.arg) ELSE store[ns]
           ch == IF r.prim = "set" THEN HostChanges(store[ns], r.arg) ELSE Obj(<< >>)
           value == IF r.prim = "set" THEN NoValue
                    ELSE Delivered(r.cb, HostGet(store[ns], r.arg))
       IN /\ pending' = [pending EXCEPT ![ns] = Tail(@)]
          /\ store' = [store EXCEPT ![ns] = new]
          /\ lastWrite' = IF r.prim = "set" THEN [lastWrite EXCEPT ![ns] = e.call]
                          ELSE lastWrite
          /\ mutations' = IF ch.v # << >> THEN Append(mutations, ns) ELSE mutations
          /\ events' = IF ch.v # << >>
                       THEN events \o [i \in 1..Len(listeners) |->
                                [to |-> listeners[i], changes |-> ch, ns |-> ns,
                                 m |-> Len(mutations) + 1]]
                       ELSE events
          /\ calls' = [Invoked(calls, r.cb, value) EXCEPT
                          ![e.call].done = TRUE, ![e.call].saw = lastWrite[ns],
                          ![e.call].before = store[ns], ![e.call].after = new]
    /\ UNCHANGED <<listeners, harness>>

\* The host delivers the oldest change event to its listener, the closure
\* create_listener built, which calls on_change.
HostFire ==
    /\ events # << >>
    /\ LET ev == Head(events)
           out == listener_closure(ev.changes, ev.ns)
       IN /\ events' = Tail(events)
          /\ calls' = [calls EXCEPT
                          ![ev.to.id].n = IF out.tag = "Called" THEN @ + 1 ELSE @,
                          ![ev.to.id].got = Append(@, [m |-> ev.m, out |-> out])]
    /\ UNCHANGED <<store, pending, listeners, lastWrite, mutations, harness>>

HostCompletes == \E ns \in Namespaces : HostComplete(ns)

Next == SetOne \/ SetMultiple \/ GetOne \/ GetMultiple \/ AddListener
           \/ HostCompletes \/ HostFire

Spec == Init /\ [][Next]_vars

(***************************************************************************)
(* Closure harness: the closure create_get_one_closure returns, run on     *)
(* arbitrary host values.                                                  *)
(***************************************************************************)
ProbeKeys == {"a", "b", "toString", "__proto__"}
ProbeValues == {Num(1), Num(2), Null, Undefined}
ProbeObjects ==
    {Obj(<< >>)}
    \cup {Obj(<<Prop(k, x)>>) : k \in ProbeKeys, x \in ProbeValues}
    \cup {Obj(<<Prop("a", x), Prop("b", y)>>) : x \in ProbeValues, y \in ProbeValues}
ProbeData == ProbeObjects \cup {Undefined, Null, Num(1)}

InitGetOne ==
    /\ HostInit
    /\ input \in {[key |-> k, data |-> d] : k \in ProbeKeys, d \in ProbeData}
    /\ output = << >>

\* The host calls the closure built by create_get_one_closure(callback, input.key)
\* with input.data.
RunGetOneClosure ==
    /\ Len(output) < MaxRuns
    /\ output' = Append(output, get_one_closure(input.key, input.data))
    /\ UNCHANGED <<store, pending, listeners, events, calls, lastWrite, mutations, input>>

SpecGetOne == InitGetOne /\ [][RunGetOneClosure]_vars

(***************************************************************************)
(* Closure harness: the closure create_listener returns, run on arbitrary  *)
(* change events.                                                          *)
(***************************************************************************)
ChangeRecords ==
    {Obj(<<Prop("oldValue", x), Prop("newValue", y)>>) :
        x \in {Num(1), Null}, y \in {Num(2), Num(5)}}
    \cup {Obj(<<Prop("newValue", y)>>) : y \in {Num(2), Num(5)}}
    \cup {Obj(<<Prop("oldValue", x)>>) : x \in {Num(1)}}
RawEvents ==
    {Obj(<< >>)}
    \cup {Obj(<<Prop(k, c)>>) : k \in {"a", "b"}, c \in ChangeRecords}
    \cup {Obj(<<Prop("a", c), Prop("b", d)>>) : c \in ChangeRecords, d \in ChangeRecords}
    \cup {Obj(<<Prop("b", c), Prop("a", d)>>) : c \in ChangeRecords, d \in ChangeRecords}

InitListener ==
    /\ HostInit
    /\ input \in {[changes |-> c, namespace |-> ns] : c \in RawEvents, ns \in Namespaces}
    /\ output = << >>

\* The host calls the closure built by create_listener(on_change) with
\* (input.changes, input.namespace).
RunListenerClosure ==
    /\ Len(output) < MaxRuns
    /\ output' = Append(output, listener_closure(input.changes, input.namespace))
    /\ UNCHANGED <<store, pending, listeners, events, calls, lastWrite, mutations, input>>

SpecListener == InitListener /\ [][RunListenerClosure]_vars

(***************************************************************************)
(* Properties                                                              *)
(***************************************************************************)
CallIds == 1..Len(calls)
SetCalls == {i \in CallIds : calls[i].op \in {"set_one", "set_multiple"}}
IsPending(i) == \E ns \in Namespaces : \E j \in 1..Len(pending[ns]) : pending[ns][j].call = i
Quiescent == events = << >> /\ \A ns \in Namespaces : pending[ns] = << >>
HasUnserializable(data) == \E j \in 1..Len(data) : data[j].v.ty = "unserializable"

\* C1 as stated: a set_one / set_multiple call made with on_done = None never
\* runs a callback; one made with on_done = Some(f) runs f exactly once (once no
\* request of the call is pending, f has run once), and only after the host
\* completed the write.  Calls on which the host primitive threw are left aside.
C1_Original ==
    \A i \in SetCalls :
        /\ calls[i].cb = "None" => calls[i].n = 0
        /\ calls[i].cb = "Some" /\ ~calls[i].rejected =>
              /\ calls[i].n <= 1
              /\ calls[i].n = 1 => calls[i].done
              /\ ~IsPending(i) => calls[i].n = 1

\* C1 amended: with on_done = None no callback ever runs and the request handed
\* to the host carries no closure; with on_done = Some(f), a call that returns Ok
\* has its request pending or completed, and f has run exactly once when the host
\* has completed the write and not at all before; a call that does not return Ok
\* (conversion failed, or the host primitive threw) issues no write and never
\* runs f.
C1_OptionalCallback ==
    /\ \A i \in SetCalls :
          /\ calls[i].cb = "None" => calls[i].n = 0
          /\ calls[i].cb = "Some" =>
                IF calls[i].ret.tag = "Ok"
                THEN /\ calls[i].n = (IF calls[i].done THEN 1 ELSE 0)
                     /\ calls[i].done # IsPending(i)
                ELSE calls[i].n = 0 /\ ~calls[i].done /\ ~IsPending(i)
    /\ \A ns \in Namespaces : \A j \in 1..Len(pending[ns]) :
          LET e == pending[ns][j]
          IN e.req.prim = "set" =>
                e.req.cb = (IF calls[e.call].cb = "None" THEN NoClosure
                            ELSE Closure("on_done", "", e.call))

\* Both namespaces have completed a write made with Some(f), and f ran once; a
\* write made with None has completed too.
C1_Witness ==
    /\ \E i \in SetCalls : calls[i].cb = "Some" /\ calls[i].done /\ calls[i].n = 1
                           /\ calls[i].ns = "sync"
    /\ \E i \in SetCalls : calls[i].cb = "None" /\ calls[i].done /\ calls[i].ns = "local"

\* C4: a set_multiple whose record has a field the conversion fails on returns
\* the serialization failure; it invokes no host set primitive (no request is
\* pending for it, none was rejected, none is ever completed, so no key of the
\* record is written) and its on_done callback never runs.
C4_SerializationAborts ==
    \A i \in CallIds :
        calls[i].op = "set_multiple" /\ HasUnserializable(calls[i].arg) =>
            /\ calls[i].ret = Err(Error_SerdeWasmBindgen(SerdeError))
            /\ ~calls[i].rejected
            /\ ~IsPending(i)
            /\ ~calls[i].done
            /\ calls[i].n = 0
            /\ \A ns \in Namespaces : lastWrite[ns] # i

\* A set_multiple with a callback failed on its second field, every call has
\* been made and the host has nothing left to do: nothing was stored.
C4_Witness ==
    /\ Len(calls) = MaxCalls /\ Quiescent
    /\ \A ns \in Namespaces : store[ns] = EmptyStore
    /\ \E i \in CallIds :
          /\ calls[i].op = "set_multiple" /\ calls[i].cb = "Some"
          /\ calls[i].arg[1].v = I32(1) /\ calls[i].arg[2].v = Unserializable

\* C5 as stated: a set_one whose host set primitive rejected the write
\* synchronously returns a HostFailure carrying the host's error value, and
\* set_one returns Ok only when the host did not reject the write.
C5_Original ==
    \A i \in CallIds :
        calls[i].op = "set_one" =>
            /\ calls[i].rejected => calls[i].ret = Err(Error_JsValue(HostException))
            /\ calls[i].ret.tag = "Ok" => ~calls[i].rejected

FieldNames(data) == [j \in 1..Len(data) |-> data[j].k]

\* from_structured for a struct { a: i32, b: i32 }: every field is read from the
\* object by name and must hold a number.
Decode(o) ==
    IF IsObject(o) /\ \A f \in {"a", "b"} : f \in OwnKeys(o) /\ Own(o, f).t = "number"
    THEN Ok(<<Prop("a", I32(Own(o, "a").v)), Prop("b", I32(Own(o, "b").v))>>)
    ELSE Err(SerdeError)

\* The get_multiple calls that read a namespace whose last completed write is
\* a set_multiple(R) through the same binding, and that asked for keys(R).
ReadsBack(g) ==
    /\ calls[g].op = "get_multiple" /\ calls[g].done
    /\ calls[g].saw # 0
    /\ calls[calls[g].saw].op = "set_multiple"
    /\ calls[calls[g].saw].ns = calls[g].ns
    /\ calls[g].arg = FieldNames(calls[calls[g].saw].arg)

Repeats(i) ==
    /\ calls[i].op = "set_one" /\ calls[i].done
    /\ calls[i].saw # 0
    /\ calls[calls[i].saw].op = "set_one"
    /\ calls[calls[i].saw].ns = calls[i].ns
    /\ calls[calls[i].saw].arg = calls[i].arg

\* C7 as stated: after set_one(k, v) completed twice in a row in one namespace,
\* the namespace holds v at k and its contents equal those after the first write.
C7_Original ==
    \A i \in CallIds :
        Repeats(i) =>
            /\ calls[i].arg.k \in DOMAIN calls[i].after
            /\ calls[i].after[calls[i].arg.k] = calls[i].arg.v
            /\ calls[i].after = calls[calls[i].saw].after

\* C8 as stated: the payload set_one hands to the host is an object whose only
\* own property is key, holding the converted value; a completed set_one(k, v)
\* leaves the namespace holding v at k and every other key as it was.
C8_Original ==
    /\ \A ns \in Namespaces : \A j \in 1..Len(pending[ns]) :
          LET c == calls[pending[ns][j].call]
          IN c.op = "set_one" =>
                pending[ns][j].req.arg = Obj(<<Prop(c.arg.k, c.arg.v)>>)
    /\ \A i \in CallIds :
          calls[i].op = "set_one" /\ calls[i].done =>
              /\ calls[i].arg.k \in DOMAIN calls[i].after
              /\ calls[i].after[calls[i].arg.k] = calls[i].arg.v
              /\ DOMAIN calls[i].after \ {calls[i].arg.k}
                    = DOMAIN calls[i].before \ {calls[i].arg.k}
              /\ \A k \in DOMAIN calls[i].after \ {calls[i].arg.k} :
                    calls[i].after[k] = calls[i].before[k]

Listeners == {i \in CallIds : calls[i].op = "add_listener"}
Heard(l, m) == Cardinality({j \in 1..Len(calls[l].got) : calls[l].got[j].m = m})
Queued(l, m) ==
    Cardinality({j \in 1..Len(events) : events[j].to.id = l /\ events[j].m = m})

WrittenBy(c) ==
    IF c.op = "set_one" THEN {<<c.arg.k, c.arg.v>>}
    ELSE {<<c.arg[j].k, field_to_js(c.arg[j].v)>> :
             j \in {j \in 1..Len(c.arg) : c.arg[j].v.ty # "unserializable"}}
WrittenVia(ns) == UNION {WrittenBy(calls[i]) : i \in {i \in SetCalls : calls[i].ns = ns}}
Other(ns) == IF ns = "local" THEN "sync" ELSE "local"

\* C10: every request a binding hands to the host goes to the host namespace
\* of that binding; a namespace holds only what was written through its own
\* binding; a get delivers no (key, value) that was written only through the
\* other binding.
C10_NamespaceIsolation ==
    /\ \A ns \in Namespaces : \A j \in 1..Len(pending[ns]) :
          calls[pending[ns][j].call].ns = ns
    /\ \A ns \in Namespaces : lastWrite[ns] # 0 => calls[lastWrite[ns]].ns = ns
    /\ \A ns \in Namespaces : \A k \in DOMAIN store[ns] :
          <<k, store[ns][k]>> \in WrittenVia(ns)
    /\ \A g \in CallIds :
          /\ calls[g].op = "get_multiple" /\ calls[g].done =>
                \A j \in 1..Len(calls[g].got[1].v) :
                    <<calls[g].got[1].v[j].k, calls[g].got[1].v[j].v>>
                        \in WrittenVia(calls[g].ns)
          /\ calls[g].op = "get_one" /\ calls[g].done /\ calls[g].got[1].tag = "Some" =>
                <<calls[g].arg, calls[g].got[1].val>>
                    \notin WrittenVia(Other(calls[g].ns)) \ WrittenVia(calls[g].ns)

\* A value was written through local and stored there; a get through sync,
\* completed afterwards, delivered nothing.
C10_Witness ==
    /\ "a" \in DOMAIN store["local"]
    /\ store["sync"] = EmptyStore
    /\ \E g \in CallIds :
          /\ calls[g].op = "get_one" /\ calls[g].ns = "sync" /\ calls[g].arg = "a"
          /\ calls[g].done /\ calls[g].got = <<None>>
          /\ lastWrite["local"] # 0 /\ lastWrite["local"] < g

\* What C2 says the closure delivers for (key, data).
C2_Expected(key, data) ==
    IF IsObject(data) /\ key \in OwnKeys(data) /\ Own(data, key) # Undefined
    THEN Some(Own(data, key))
    ELSE None

\* C2 as stated: run on a result object containing {key: v} the closure passes
\* Some(v) to the callback; run on an object lacking key, on one holding
\* undefined at key, or on a value the lookup fails on, it passes None; every
\* run calls the callback exactly once.
C2_Original ==
    \A r \in 1..Len(output) :
        /\ Len(output[r]) = 1
        /\ output[r][1] = C2_Expected(input.key, input.data)

\* The view the ChangeSet gives of a StorageChange: the pair of its optional
\* old and new value, an absent (undefined) or null value being None.
ToOption(x) == IF x.t \in {"undefined", "null"} THEN None ELSE Some(x)
ChangeRecord(sc) == <<ToOption(old_value(sc)), ToOption(new_value(sc))>>

\* The raw change event {"a": {old: 1, new: 2}, "b": {old: null, new: 5}}.
C3_Example ==
    Obj(<<Prop("a", Obj(<<Prop("oldValue", Num(1)), Prop("newValue", Num(2))>>)),
          Prop("b", Obj(<<Prop("oldValue", Null), Prop("newValue", Num(5))>>))>>)

\* C3: every run of the listener closure on a raw event calls on_change with a
\* ChangeSet that has exactly the event's keys, each mapped to the StorageChange
\* the event holds at that key (so to its own old/new pair), and with the
\* namespace string it was given; on the example event and "local" that is
\* a -> (Some(1), Some(2)), b -> (None, Some(5)) and "local".
C3_ChangeSet ==
    \A r \in 1..Len(output) :
        LET out == output[r]
        IN /\ out.tag = "Called"
           /\ out.namespace = input.namespace
           /\ DOMAIN out.changes = OwnKeys(input.changes)
           /\ \A k \in OwnKeys(input.changes) :
                 /\ out.changes[k] = Own(input.changes, k)
                 /\ ChangeRecord(out.changes[k]) = ChangeRecord(Own(input.changes, k))
           /\ input = [changes |-> C3_Example, namespace |-> "local"] =>
                 /\ DOMAIN out.changes = {"a", "b"}
                 /\ ChangeRecord(out.changes["a"]) = <<Some(Num(1)), Some(Num(2))>>
                 /\ ChangeRecord(out.changes["b"]) = <<None, Some(Num(5))>>
                 /\ out.namespace = "local"

\* The closure has run on the example event with namespace "local".
C3_Witness ==
    /\ input = [changes |-> C3_Example, namespace |-> "local"]
    /\ Len(output) >= 1

====
